---- MODULE Spec2Model ----
(***************************************************************************)
(* A model of the Solana REST facade: the handlers of src/handlers/mod.rs, *)
(* the SolanaService of src/services/solana.rs, the envelopes of           *)
(* src/models.rs and the route table of src/router/mod.rs.                 *)
(*                                                                         *)
(* Data.  A Rust String is its UTF-8 bytes: a string is a sequence of byte *)
(* values (ASCII codes), so str.as_bytes() is the sequence itself and      *)
(* is_empty() is Len = 0.  A byte array is a sequence over 0..255.         *)
(* Result<T> is [ok |-> TRUE, val |-> v] or [ok |-> FALSE, err |-> e],     *)
(* with e = [kind |-> <AppError variant>, msg |-> <<text, argument>>].     *)
(*                                                                         *)
(* Libraries.  bs58 and base64 are computed digit by digit as the crates   *)
(* compute them.  Ed25519 is replaced by a Schnorr signature over the      *)
(* additive group of integers modulo a small prime (base point 1): it has  *)
(* the same algebra (A = a*B, R = r*B, S = r + H(R,A,M)*a, accepted iff    *)
(* S*B - H(R,A,M)*A = R) and the same partial decoders (a 32-byte string   *)
(* may fail to decompress to a point; a 64-byte string whose last byte has *)
(* one of its top three bits set is no signature).                         *)
(***************************************************************************)
EXTENDS Integers, Sequences, FiniteSets, TLC

VARIABLES router, slots, keypair, signed

vars == <<router, slots, keypair, signed>>

(***************************************************************************)
(* Sequences of bytes                                                      *)
(***************************************************************************)
Zeros(n) == [i \in 1..n |-> 0]

Reverse(s) == [i \in 1..Len(s) |-> s[Len(s) + 1 - i]]

\* The number of leading elements of s equal to z (take_while(|c| c == z).count()).
LeadingCount(s, z) ==
    IF \A i \in 1..Len(s) : s[i] = z THEN Len(s)
    ELSE (CHOOSE i \in 1..Len(s) : s[i] # z /\ \A j \in 1..(i - 1) : s[j] = z) - 1

RECURSIVE SumRange(_, _, _)
SumRange(s, lo, hi) ==
    IF lo > hi THEN 0
    ELSE IF lo = hi THEN s[lo]
    ELSE SumRange(s, lo, (lo + hi) \div 2) + SumRange(s, (lo + hi) \div 2 + 1, hi)

SumBytes(s) == SumRange(s, 1, Len(s))

Ok(v) == [ok |-> TRUE, val |-> v]

Err(kind, text, arg) == [ok |-> FALSE, err |-> [kind |-> kind, msg |-> <<text, arg>>]]

(***************************************************************************)
(* bs58: base conversion with a carry, as bs58::encode / bs58::decode do   *)
(* it.  The output digits are little-endian while they are computed; the   *)
(* leading zeros of the input are appended and the whole is reversed.      *)
(***************************************************************************)
BASE58_ALPHABET ==
    <<49, 50, 51, 52, 53, 54, 55, 56, 57,
      65, 66, 67, 68, 69, 70, 71, 72, 74, 75, 76, 77, 78,
      80, 81, 82, 83, 84, 85, 86, 87, 88, 89, 90,
      97, 98, 99, 100, 101, 102, 103, 104, 105, 106, 107,
      109, 110, 111, 112, 113, 114, 115, 116, 117, 118, 119, 120, 121, 122>>

\* The digit a character stands for, -1 for a character outside the alphabet
\* (the alphabet is six runs of consecutive codes: 1-9, A-H, J-N, P-Z, a-k, m-z).
Base58Value(c) ==
    CASE c >= 49 /\ c <= 57 -> c - 49
      [] c >= 65 /\ c <= 72 -> c - 56
      [] c >= 74 /\ c <= 78 -> c - 57
      [] c >= 80 /\ c <= 90 -> c - 58
      [] c >= 97 /\ c <= 107 -> c - 64
      [] c >= 109 /\ c <= 122 -> c - 65
      [] OTHER -> -1

\* One pass of "for byte in output { carry += byte * from; byte = carry % to;
\* carry /= to }" over out[lo..hi]: the new digits and the carry that leaves.
RECURSIVE CarryRange(_, _, _, _, _, _)
CarryRange(out, lo, hi, carry, from, to) ==
    IF lo > hi THEN [digits |-> << >>, carry |-> carry]
    ELSE IF lo = hi
    THEN [digits |-> <<(carry + out[lo] * from) % to>>,
          carry |-> (carry + out[lo] * from) \div to]
    ELSE LET mid == (lo + hi) \div 2
             l == CarryRange(out, lo, mid, carry, from, to)
             r == CarryRange(out, mid + 1, hi, l.carry, from, to)
         IN [digits |-> l.digits \o r.digits, carry |-> r.carry]

\* "while carry > 0 { output.push(carry % to); carry /= to }"
RECURSIVE CarryDigits(_, _)
CarryDigits(carry, to) ==
    IF carry = 0 THEN << >> ELSE <<carry % to>> \o CarryDigits(carry \div to, to)

CarryPass(out, val, from, to) ==
    LET p == CarryRange(out, 1, Len(out), val, from, to)
    IN p.digits \o CarryDigits(p.carry, to)

\* "for val in input { CarryPass }" over input[lo..hi].
RECURSIVE ConvertRange(_, _, _, _, _, _)
ConvertRange(input, lo, hi, out, from, to) ==
    IF lo > hi THEN out
    ELSE IF lo = hi THEN CarryPass(out, input[lo], from, to)
    ELSE LET mid == (lo + hi) \div 2
             l == ConvertRange(input, lo, mid, out, from, to)
         IN \* Len(l) is read first: the left half is computed before the right.
            IF Len(l) < 0 THEN l ELSE ConvertRange(input, mid + 1, hi, l, from, to)

bs58_encode(bytes) ==
    LET digits == ConvertRange(bytes, 1, Len(bytes), << >>, 256, 58)
                      \o Zeros(LeadingCount(bytes, 0))
    IN Reverse([i \in 1..Len(digits) |-> BASE58_ALPHABET[digits[i] + 1]])

bs58_decode(str) ==
    IF \E i \in 1..Len(str) : Base58Value(str[i]) < 0
    THEN Err("Base58DecodeError", "invalid character", str)
    ELSE LET vals == [i \in 1..Len(str) |-> Base58Value(str[i])]
             out == ConvertRange(vals, 1, Len(vals), << >>, 58, 256)
                        \o Zeros(LeadingCount(str, BASE58_ALPHABET[1]))
         IN Ok(Reverse(out))

(***************************************************************************)
(* base64, general_purpose::STANDARD: the alphabet A-Z a-z 0-9 + /, with   *)
(* canonical '=' padding required and no stray trailing bits accepted.     *)
(***************************************************************************)
BASE64_PAD == 61

Base64Char(v) ==
    CASE v < 26 -> v + 65
      [] v < 52 -> v + 71
      [] v < 62 -> v - 4
      [] v = 62 -> 43
      [] OTHER -> 47

Base64Value(c) ==
    CASE c >= 65 /\ c <= 90 -> c - 65
      [] c >= 97 /\ c <= 122 -> c - 71
      [] c >= 48 /\ c <= 57 -> c + 4
      [] c = 43 -> 62
      [] c = 47 -> 63
      [] OTHER -> -1

ByteAt(bytes, i) == IF i <= Len(bytes) THEN bytes[i] ELSE 0

base64_encode(bytes) ==
    [j \in 1..(4 * ((Len(bytes) + 2) \div 3)) |->
        LET g == (j - 1) \div 4
            b0 == ByteAt(bytes, 3 * g + 1)
            b1 == ByteAt(bytes, 3 * g + 2)
            b2 == ByteAt(bytes, 3 * g + 3)
        IN CASE (j - 1) % 4 = 0 -> Base64Char(b0 \div 4)
             [] (j - 1) % 4 = 1 -> Base64Char((b0 % 4) * 16 + b1 \div 16)
             [] (j - 1) % 4 = 2 ->
                    IF 3 * g + 2 > Len(bytes) THEN BASE64_PAD
                    ELSE Base64Char((b1 % 16) * 4 + b2 \div 64)
             [] OTHER ->
                    IF 3 * g + 3 > Len(bytes) THEN BASE64_PAD
                    ELSE Base64Char(b2 % 64)]

\* The number of '=' that end the string (at most two are padding).
Base64PadCount(str) ==
    IF Len(str) >= 2 /\ str[Len(str)] = BASE64_PAD /\ str[Len(str) - 1] = BASE64_PAD THEN 2
    ELSE IF Len(str) >= 1 /\ str[Len(str)] = BASE64_PAD THEN 1
    ELSE 0

SymbolAt(str, i) == IF Base64Value(str[i]) < 0 THEN 0 ELSE Base64Value(str[i])

base64_decode(str) ==
    LET pad == Base64PadCount(str)
        n == Len(str)
    IN IF \E i \in 1..(n - pad) : Base64Value(str[i]) < 0
       THEN Err("Base64DecodeError", "invalid byte", str)
       ELSE IF n % 4 # 0
       THEN Err("Base64DecodeError", "invalid padding", str)
       ELSE IF \/ pad = 1 /\ Base64Value(str[n - 1]) % 4 # 0
               \/ pad = 2 /\ Base64Value(str[n - 2]) % 16 # 0
       THEN Err("Base64DecodeError", "invalid last symbol", str)
       ELSE Ok([k \in 1..(3 * (n \div 4) - pad) |->
                   LET g == (k - 1) \div 3
                       v0 == SymbolAt(str, 4 * g + 1)
                       v1 == SymbolAt(str, 4 * g + 2)
                       v2 == SymbolAt(str, 4 * g + 3)
                       v3 == SymbolAt(str, 4 * g + 4)
                   IN CASE (k - 1) % 3 = 0 -> v0 * 4 + v1 \div 16
                        [] (k - 1) % 3 = 1 -> (v1 % 16) * 16 + v2 \div 4
                        [] OTHER -> (v2 % 4) * 64 + v3])

(***************************************************************************)
(* crate::errors (not among the sources): the two conversions the service  *)
(* names, kept as the decoder's error.                                     *)
(***************************************************************************)
base58_decode_error(e) == [ok |-> FALSE, err |-> e.err]

base64_decode_error(e) == [ok |-> FALSE, err |-> e.err]

(***************************************************************************)
(* The signature scheme standing for ed25519-dalek: Schnorr over the       *)
(* integers modulo a prime, base point 1.                                  *)
(***************************************************************************)
PUBLIC_KEY_LENGTH == 32

SECRET_KEY_LENGTH == 32

KEYPAIR_LENGTH == 64

SIGNATURE_LENGTH == 64

\* Reduction modulo the group order.
ModOrder(x) == x % 251

\* A compressed point: the element in the last byte, the others zero.
PointBytes(x) == Zeros(PUBLIC_KEY_LENGTH - 1) \o <<x>>

\* CompressedEdwardsY::decompress: not every 32-byte string is a point.
IsPoint(bytes) ==
    /\ Len(bytes) = PUBLIC_KEY_LENGTH
    /\ \A i \in 1..(PUBLIC_KEY_LENGTH - 1) : bytes[i] = 0
    /\ bytes[PUBLIC_KEY_LENGTH] = ModOrder(bytes[PUBLIC_KEY_LENGTH])

PointOf(bytes) == bytes[PUBLIC_KEY_LENGTH]

\* A scalar, little-endian: the value in the first byte.
ScalarBytes(s) == <<s>> \o Zeros(31)

IsCanonicalScalar(bytes) ==
    /\ \A i \in 2..32 : bytes[i] = 0
    /\ bytes[1] = ModOrder(bytes[1])

\* ExpandedSecretKey::from(&secret): the secret scalar (never zero) of a seed.
SecretScalar(seed) ==
    IF ModOrder(SumBytes(seed)) = 0 THEN 1 ELSE ModOrder(SumBytes(seed))

\* The nonce r = H(prefix, M) and the challenge H(R, A, M).
NonceScalar(seed, message) ==
    ModOrder(3 * SumBytes(seed) + 5 * SumBytes(message) + Len(message) + 1)

ChallengeScalar(R, A, message) ==
    ModOrder(SumBytes(R) + 2 * SumBytes(A) + 7 * SumBytes(message) + 1)

\* PublicKey::from(&secret): A = a * B.
PublicOf(seed) == PointBytes(SecretScalar(seed))

\* Keypair::new(): a fresh seed from the OS random source, and its public key.
Keypair_new(seed) == [secret |-> seed, public |-> PublicOf(seed)]

\* Keypair::to_bytes(): secret || public.
Keypair_to_bytes(kp) == kp.secret \o kp.public

\* Keypair::from_bytes(): 64 bytes, the last 32 of which decompress to a point
\* (the public half is taken as given, not recomputed from the secret half).
Keypair_from_bytes(bytes) ==
    IF Len(bytes) # KEYPAIR_LENGTH
    THEN Err("SignatureError", "Keypair must be 64 bytes in length", << >>)
    ELSE IF ~IsPoint(SubSeq(bytes, SECRET_KEY_LENGTH + 1, KEYPAIR_LENGTH))
    THEN Err("SignatureError", "Cannot decompress Edwards point", << >>)
    ELSE Ok([secret |-> SubSeq(bytes, 1, SECRET_KEY_LENGTH),
             public |-> SubSeq(bytes, SECRET_KEY_LENGTH + 1, KEYPAIR_LENGTH)])

\* Signer::sign_message: R || S with S = r + H(R, A, M) * a.
Keypair_sign_message(kp, message) ==
    LET r == NonceScalar(kp.secret, message)
        R == PointBytes(r)
        h == ChallengeScalar(R, kp.public, message)
    IN R \o ScalarBytes(ModOrder(r + h * SecretScalar(kp.secret)))

\* ed25519_dalek::PublicKey::from_bytes
Ed25519PublicKey_from_bytes(bytes) ==
    IF Len(bytes) = PUBLIC_KEY_LENGTH /\ IsPoint(bytes)
    THEN Ok(bytes)
    ELSE Err("SignatureError", "Cannot decompress Edwards point", << >>)

\* ed25519::Signature::from_bytes: 64 bytes, the top three bits of the last clear.
Ed25519Signature_from_bytes(bytes) ==
    IF Len(bytes) = SIGNATURE_LENGTH /\ bytes[SIGNATURE_LENGTH] \div 32 = 0
    THEN Ok(bytes)
    ELSE Err("SignatureError", "signature error", << >>)

\* Verifier::verify(message, &signature).is_ok(): S * B - H(R, A, M) * A = R.
Ed25519PublicKey_verify(A, message, sig) ==
    LET R == SubSeq(sig, 1, 32)
        S == SubSeq(sig, 33, 64)
        h == ChallengeScalar(R, A, message)
    IN /\ IsCanonicalScalar(S)
       /\ PointBytes(ModOrder(S[1] - h * PointOf(A))) = R

(***************************************************************************)
(* solana_sdk: Pubkey and Signature                                        *)
(***************************************************************************)
MAX_BASE58_LEN == 44

\* Pubkey::from_str
Pubkey_from_str(s) ==
    IF Len(s) > MAX_BASE58_LEN THEN Err("ParsePubkeyError", "WrongSize", s)
    ELSE LET d == bs58_decode(s)
         IN IF ~d.ok THEN Err("ParsePubkeyError", "Invalid", s)
            ELSE IF Len(d.val) # PUBLIC_KEY_LENGTH THEN Err("ParsePubkeyError", "WrongSize", s)
            ELSE Ok(d.val)

\* Pubkey's Display
Pubkey_to_string(pubkey) == bs58_encode(pubkey)

\* Signature::try_from(&[u8])
Signature_try_from(bytes) ==
    IF Len(bytes) = SIGNATURE_LENGTH THEN Ok(bytes)
    ELSE Err("TryFromSliceError", "could not convert slice to array", << >>)

(***************************************************************************)
(* spl_token: the program id and the two instruction builders              *)
(***************************************************************************)
\* spl_token::id(), TokenkegQfeZyiNwAJbNbGKPFXCWuBvf9Ss623VQ5DA
spl_token_id ==
    <<6, 221, 246, 225, 215, 101, 161, 147, 217, 203, 225, 70, 206, 235, 121, 172,
      28, 180, 133, 237, 95, 91, 55, 145, 58, 140, 245, 133, 126, 255, 0, 169>>

\* sysvar::rent::id(), SysvarRent111111111111111111111111111111111
sysvar_rent_id ==
    <<6, 167, 213, 23, 25, 44, 92, 81, 33, 140, 201, 76, 61, 74, 241, 127,
      88, 218, 238, 8, 155, 161, 253, 68, 227, 219, 217, 138, 0, 0, 0, 0>>

\* u64::to_le_bytes, for the amounts of the model (below 2^31).
U64LeBytes(n) == [i \in 1..8 |-> IF i <= 4 THEN (n \div (256 ^ (i - 1))) % 256 ELSE 0]

\* initialize_mint(token_program_id, mint, mint_authority, Some(freeze_authority), decimals)
initialize_mint(token_program_id, mint_pubkey, mint_authority_pubkey, freeze_authority_pubkey, decimals) ==
    IF token_program_id # spl_token_id
    THEN Err("ProgramError", "IncorrectProgramId", << >>)
    ELSE Ok([program_id |-> token_program_id,
             accounts |-> <<[pubkey |-> mint_pubkey, is_signer |-> FALSE, is_writable |-> TRUE],
                            [pubkey |-> sysvar_rent_id, is_signer |-> FALSE, is_writable |-> FALSE]>>,
             data |-> <<0, decimals>> \o mint_authority_pubkey \o <<1>> \o freeze_authority_pubkey])

\* mint_to(token_program_id, mint, account, owner, &[], amount)
mint_to(token_program_id, mint_pubkey, account_pubkey, owner_pubkey, amount) ==
    IF token_program_id # spl_token_id
    THEN Err("ProgramError", "IncorrectProgramId", << >>)
    ELSE Ok([program_id |-> token_program_id,
             accounts |-> <<[pubkey |-> mint_pubkey, is_signer |-> FALSE, is_writable |-> TRUE],
                            [pubkey |-> account_pubkey, is_signer |-> FALSE, is_writable |-> TRUE],
                            [pubkey |-> owner_pubkey, is_signer |-> TRUE, is_writable |-> FALSE]>>,
             data |-> <<7>> \o U64LeBytes(amount)])

(***************************************************************************)
(* SolanaService                                                           *)
(***************************************************************************)
\* generate_keypair encoding the secret half alone.
generate_keypair_secret_half(seed) ==
    LET kp == Keypair_new(seed)
    IN Ok([public_key |-> Pubkey_to_string(kp.public),
           secret_key |-> bs58_encode(kp.secret)])

generate_keypair(seed) ==
    LET kp == Keypair_new(seed)
    IN Ok([public_key |-> Pubkey_to_string(kp.public),
           secret_key |-> bs58_encode(Keypair_to_bytes(kp))])

instruction_to_response(instruction) ==
    Ok([program_id |-> Pubkey_to_string(instruction.program_id),
        accounts |-> [i \in 1..Len(instruction.accounts) |->
                         [pubkey |-> Pubkey_to_string(instruction.accounts[i].pubkey),
                          is_signer |-> instruction.accounts[i].is_signer,
                          is_writable |-> instruction.accounts[i].is_writable]],
        instruction_data |-> base64_encode(instruction.data)])

create_token_mint(mint_authority, mint, decimals) ==
    LET mint_authority_pubkey == Pubkey_from_str(mint_authority)
        mint_pubkey == Pubkey_from_str(mint)
        instruction == initialize_mint(spl_token_id, mint_pubkey.val, mint_authority_pubkey.val,
                                       mint_authority_pubkey.val, decimals)
    IN IF ~mint_authority_pubkey.ok THEN Err("InvalidPublicKey", "", mint_authority)
       ELSE IF ~mint_pubkey.ok THEN Err("InvalidPublicKey", "", mint)
       ELSE IF ~instruction.ok THEN Err("TokenOperationFailed", instruction.err.msg[1], << >>)
       ELSE instruction_to_response(instruction.val)

mint_token(mint, destination, authority, amount) ==
    LET mint_pubkey == Pubkey_from_str(mint)
        destination_pubkey == Pubkey_from_str(destination)
        authority_pubkey == Pubkey_from_str(authority)
        instruction == mint_to(spl_token_id, mint_pubkey.val, destination_pubkey.val,
                               authority_pubkey.val, amount)
    IN IF ~mint_pubkey.ok THEN Err("InvalidPublicKey", "", mint)
       ELSE IF ~destination_pubkey.ok THEN Err("InvalidPublicKey", "", destination)
       ELSE IF ~authority_pubkey.ok THEN Err("InvalidPublicKey", "", authority)
       ELSE IF ~instruction.ok THEN Err("TokenOperationFailed", instruction.err.msg[1], << >>)
       ELSE instruction_to_response(instruction.val)

\* sign_message answering with the public key derived from the secret half.
sign_message_derived_key(message, secret_key) ==
    LET secret_bytes == bs58_decode(secret_key)
        kp == Keypair_from_bytes(secret_bytes.val)
        signature == Keypair_sign_message(kp.val, message)
    IN IF ~secret_bytes.ok THEN base58_decode_error(secret_bytes)
       ELSE IF ~kp.ok THEN Err("InvalidSecretKey", "Invalid secret key format", << >>)
       ELSE Ok([signature |-> base64_encode(signature),
                public_key |-> Pubkey_to_string(PublicOf(kp.val.secret)),
                message |-> message])

\* sign_message encoding the signature as base58.
sign_message_base58(message, secret_key) ==
    LET secret_bytes == bs58_decode(secret_key)
        kp == Keypair_from_bytes(secret_bytes.val)
        signature == Keypair_sign_message(kp.val, message)
    IN IF ~secret_bytes.ok THEN base58_decode_error(secret_bytes)
       ELSE IF ~kp.ok THEN Err("InvalidSecretKey", "Invalid secret key format", << >>)
       ELSE Ok([signature |-> bs58_encode(signature),
                public_key |-> Pubkey_to_string(kp.val.public),
                message |-> message])

sign_message(message, secret_key) ==
    LET secret_bytes == bs58_decode(secret_key)
        kp == Keypair_from_bytes(secret_bytes.val)
        signature == Keypair_sign_message(kp.val, message)
    IN IF ~secret_bytes.ok THEN base58_decode_error(secret_bytes)
       ELSE IF ~kp.ok THEN Err("InvalidSecretKey", "Invalid secret key format", << >>)
       ELSE Ok([signature |-> base64_encode(signature),
                public_key |-> Pubkey_to_string(kp.val.public),
                message |-> message])

\* verify_ed25519_signature with the failure of verify returned as an error.
verify_ed25519_signature_strict(pubkey, message, signature) ==
    LET ed25519_pubkey == Ed25519PublicKey_from_bytes(pubkey)
        ed25519_signature == Ed25519Signature_from_bytes(signature)
    IN IF ~ed25519_pubkey.ok
       THEN Err("InvalidPublicKey", "Invalid public key for verification", << >>)
       ELSE IF ~ed25519_signature.ok
       THEN Err("InvalidSignature", "Invalid signature format", << >>)
       ELSE IF ~Ed25519PublicKey_verify(ed25519_pubkey.val, message, ed25519_signature.val)
       THEN Err("InvalidSignature", "Invalid signature format", << >>)
       ELSE Ok(TRUE)

verify_ed25519_signature(pubkey, message, signature) ==
    LET ed25519_pubkey == Ed25519PublicKey_from_bytes(pubkey)
        ed25519_signature == Ed25519Signature_from_bytes(signature)
    IN IF ~ed25519_pubkey.ok
       THEN Err("InvalidPublicKey", "Invalid public key for verification", << >>)
       ELSE IF ~ed25519_signature.ok
       THEN Err("InvalidSignature", "Invalid signature format", << >>)
       ELSE Ok(Ed25519PublicKey_verify(ed25519_pubkey.val, message, ed25519_signature.val))

verify_message(message, signature_base64, public_key) ==
    LET signature_bytes == base64_decode(signature_base64)
        pubkey == Pubkey_from_str(public_key)
        signature == Signature_try_from(signature_bytes.val)
        valid == verify_ed25519_signature(pubkey.val, message, signature.val)
    IN IF ~signature_bytes.ok THEN base64_decode_error(signature_bytes)
       ELSE IF ~pubkey.ok THEN Err("InvalidPublicKey", "", public_key)
       ELSE IF ~signature.ok THEN Err("InvalidSignature", "Invalid signature format", << >>)
       ELSE IF ~valid.ok THEN valid
       ELSE Ok([valid |-> valid.val])

\* is_valid_pubkey accepting every non-empty string.
is_valid_pubkey_any(pubkey_str) == pubkey_str # << >>

is_valid_pubkey(pubkey_str) == Pubkey_from_str(pubkey_str).ok

is_valid_secret_key(secret_key_str) ==
    LET bytes == bs58_decode(secret_key_str)
    IN IF bytes.ok THEN Len(bytes.val) = 64 ELSE FALSE

(***************************************************************************)
(* models.rs: the two envelopes                                            *)
(***************************************************************************)
\* An envelope that does not say success.
ApiResponse_success_false(data) == [success |-> FALSE, data |-> data]

ApiResponse_success(data) == [success |-> TRUE, data |-> data]

ApiErrorResponse_error(message) == [success |-> FALSE, error |-> message]

(***************************************************************************)
(* handlers/mod.rs.  A handler returns its Result together with the log of *)
(* the SolanaService methods it called, in order, each with what it        *)
(* returned.                                                               *)
(***************************************************************************)
Call(op, ret) == [op |-> op, ret |-> ret]

Returned(response, calls) == [response |-> response, calls |-> calls]

\* "match service_result { Ok(r) => Ok(Json(ApiResponse::success(r))), Err(e) => Err(e) }"
Respond(service_result) ==
    IF service_result.ok THEN Ok(ApiResponse_success(service_result.val)) ELSE service_result

generate_keypair_handler(seed) ==
    LET r == generate_keypair(seed)
    IN Returned(Respond(r), <<Call("generate_keypair", r)>>)

create_token_handler(request) ==
    IF request.mint_authority = << >>
    THEN Returned(Err("ValidationError", "mintAuthority is required", << >>), << >>)
    ELSE IF request.mint = << >>
    THEN Returned(Err("ValidationError", "mint is required", << >>), << >>)
    ELSE IF ~is_valid_pubkey(request.mint_authority)
    THEN Returned(Err("InvalidPublicKey", "Invalid mintAuthority: ", request.mint_authority),
                  <<Call("is_valid_pubkey", FALSE)>>)
    ELSE IF ~is_valid_pubkey(request.mint)
    THEN Returned(Err("InvalidPublicKey", "Invalid mint: ", request.mint),
                  <<Call("is_valid_pubkey", TRUE), Call("is_valid_pubkey", FALSE)>>)
    ELSE LET r == create_token_mint(request.mint_authority, request.mint, request.decimals)
         IN Returned(Respond(r),
                     <<Call("is_valid_pubkey", TRUE), Call("is_valid_pubkey", TRUE),
                       Call("create_token_mint", r)>>)

\* mint_token_handler without the check of amount.
mint_token_handler_without_amount_check(request) ==
    IF request.mint = << >>
    THEN Returned(Err("ValidationError", "mint is required", << >>), << >>)
    ELSE IF request.destination = << >>
    THEN Returned(Err("ValidationError", "destination is required", << >>), << >>)
    ELSE IF request.authority = << >>
    THEN Returned(Err("ValidationError", "authority is required", << >>), << >>)
    ELSE IF ~is_valid_pubkey(request.mint)
    THEN Returned(Err("InvalidPublicKey", "Invalid mint: ", request.mint),
                  <<Call("is_valid_pubkey", FALSE)>>)
    ELSE IF ~is_valid_pubkey(request.destination)
    THEN Returned(Err("InvalidPublicKey", "Invalid destination: ", request.destination),
                  <<Call("is_valid_pubkey", TRUE), Call("is_valid_pubkey", FALSE)>>)
    ELSE IF ~is_valid_pubkey(request.authority)
    THEN Returned(Err("InvalidPublicKey", "Invalid authority: ", request.authority),
                  <<Call("is_valid_pubkey", TRUE), Call("is_valid_pubkey", TRUE),
                    Call("is_valid_pubkey", FALSE)>>)
    ELSE LET r == mint_token(request.mint, request.destination, request.authority,
                             request.amount)
         IN Returned(Respond(r),
                     <<Call("is_valid_pubkey", TRUE), Call("is_valid_pubkey", TRUE),
                       Call("is_valid_pubkey", TRUE), Call("mint_token", r)>>)

mint_token_handler(request) ==
    IF request.mint = << >>
    THEN Returned(Err("ValidationError", "mint is required", << >>), << >>)
    ELSE IF request.destination = << >>
    THEN Returned(Err("ValidationError", "destination is required", << >>), << >>)
    ELSE IF request.authority = << >>
    THEN Returned(Err("ValidationError", "authority is required", << >>), << >>)
    ELSE IF request.amount = 0
    THEN Returned(Err("ValidationError", "amount must be greater than 0", << >>), << >>)
    ELSE IF ~is_valid_pubkey(request.mint)
    THEN Returned(Err("InvalidPublicKey", "Invalid mint: ", request.mint),
                  <<Call("is_valid_pubkey", FALSE)>>)
    ELSE IF ~is_valid_pubkey(request.destination)
    THEN Returned(Err("InvalidPublicKey", "Invalid destination: ", request.destination),
                  <<Call("is_valid_pubkey", TRUE), Call("is_valid_pubkey", FALSE)>>)
    ELSE IF ~is_valid_pubkey(request.authority)
    THEN Returned(Err("InvalidPublicKey", "Invalid authority: ", request.authority),
                  <<Call("is_valid_pubkey", TRUE), Call("is_valid_pubkey", TRUE),
                    Call("is_valid_pubkey", FALSE)>>)
    ELSE LET r == mint_token(request.mint, request.destination, request.authority,
                             request.amount)
         IN Returned(Respond(r),
                     <<Call("is_valid_pubkey", TRUE), Call("is_valid_pubkey", TRUE),
                       Call("is_valid_pubkey", TRUE), Call("mint_token", r)>>)

sign_message_handler(request) ==
    IF request.message = << >>
    THEN Returned(Err("ValidationError", "message is required", << >>), << >>)
    ELSE IF request.secret = << >>
    THEN Returned(Err("ValidationError", "secret is required", << >>), << >>)
    ELSE IF ~is_valid_secret_key(request.secret)
    THEN Returned(Err("InvalidSecretKey", "Invalid secret key format", << >>),
                  <<Call("is_valid_secret_key", FALSE)>>)
    ELSE LET r == sign_message(request.message, request.secret)
         IN Returned(Respond(r),
                     <<Call("is_valid_secret_key", TRUE), Call("sign_message", r)>>)

verify_message_handler(request) ==
    IF request.message = << >>
    THEN Returned(Err("ValidationError", "message is required", << >>), << >>)
    ELSE IF request.signature = << >>
    THEN Returned(Err("ValidationError", "signature is required", << >>), << >>)
    ELSE IF request.public_key = << >>
    THEN Returned(Err("ValidationError", "public_key is required", << >>), << >>)
    ELSE IF ~is_valid_pubkey(request.public_key)
    THEN Returned(Err("InvalidPublicKey", "Invalid public_key: ", request.public_key),
                  <<Call("is_valid_pubkey", FALSE)>>)
    ELSE LET r == verify_message(request.message, request.signature, request.public_key)
         IN Returned(Respond(r),
                     <<Call("is_valid_pubkey", TRUE), Call("verify_message", r)>>)

\* The handlers this module defines.
handlers ==
    {"generate_keypair_handler", "create_token_handler", "mint_token_handler",
     "sign_message_handler", "verify_message_handler"}

(***************************************************************************)
(* router/mod.rs: the route table                                          *)
(***************************************************************************)
Route(path, handler) == [method |-> "POST", path |-> path, handler |-> handler]

create_router ==
    <<Route("/keypair", "generate_keypair_handler"),
      Route("/token/create", "create_token_handler"),
      Route("/token/mint", "mint_token_handler"),
      Route("/message/sign", "sign_message_handler"),
      Route("/message/verify", "verify_message_handler"),
      Route("/send/sol", "send_sol_handler"),
      Route("/send/token", "send_token_handler")>>

\* The handler a POST to path is routed to ("" when no route matches).
RouteTo(path) ==
    IF \E i \in 1..Len(router) : router[i].path = path
    THEN router[CHOOSE i \in 1..Len(router) : router[i].path = path].handler
    ELSE ""

\* errors.rs is not among the sources: the error of a handler leaves as the
\* error envelope of models.rs, built from the error's kind and message.
IntoResponse(result) ==
    IF result.ok THEN result.val
    ELSE ApiErrorResponse_error(<<result.err.kind>> \o result.err.msg)

(***************************************************************************)
(* The inputs of the model                                                 *)
(***************************************************************************)
EMPTY == << >>

MsgHi == <<104, 105>>

MsgYo == <<121, 111>>

\* "0OIl": the four characters base58 leaves out; as base64 it is three bytes.
NotBase58 == <<48, 79, 73, 108>>

\* "!": in neither alphabet.
NotBase64 == <<33>>

\* What the OS random source may hand Keypair::new().
SeedPool == {Zeros(32), Zeros(31) \o <<9>>}

\* "11111111111111111111111111111112", the key of the service's own tests.
PubA == Pubkey_to_string(PointBytes(1))

\* 32 bytes that are a Pubkey and do not decompress to a point.
NonPointKey == Pubkey_to_string(Zeros(31) \o <<255>>)

\* 64 bytes whose public half is a point other than the secret half's.
MismatchedSecret == bs58_encode(Zeros(32) \o PointBytes(5))

\* 64 bytes whose public half is no point.
NonPointSecret == bs58_encode(Zeros(32) \o Zeros(31) \o <<255>>)

\* 32 bytes: a Pubkey, too short for a keypair.
ShortSecret == PubA

\* base64 of [0u8; 64], the signature of test_invalid_signature_verification.
ZeroSignature == base64_encode(Zeros(64))

\* 64 bytes with the top three bits of the last byte set.
HighBitSignature == base64_encode(Zeros(63) \o <<224>>)

NoKeypair == [public_key |-> EMPTY, secret_key |-> EMPTY]

NoSigned == [secret |-> EMPTY, message |-> EMPTY, signature |-> EMPTY, public_key |-> EMPTY]

CreateTokenRequests ==
    [mint_authority : {EMPTY, NotBase58, PubA}, mint : {EMPTY, NotBase58, PubA, keypair.public_key},
     decimals : {0, 9}]

MintTokenRequests ==
    [mint : {EMPTY, NotBase58, PubA, keypair.public_key}, destination : {EMPTY, NotBase58, PubA},
     authority : {EMPTY, NotBase58, PubA}, amount : {0, 1000}]

SignMessageRequests ==
    [message : {EMPTY, MsgHi},
     secret : {EMPTY, NotBase58, ShortSecret, MismatchedSecret, NonPointSecret, keypair.secret_key}]

VerifyMessageRequests ==
    [message : {EMPTY, MsgHi, MsgYo},
     signature : {EMPTY, NotBase64, NotBase58, ZeroSignature, HighBitSignature, signed.signature},
     public_key : {EMPTY, NotBase58, NonPointKey, PubA, keypair.public_key, signed.public_key}]

\* The requests of the concurrent clients.
ConcurrentCreateTokenRequests == [mint_authority : {PubA}, mint : {PubA, NotBase58}, decimals : {9}]

ConcurrentMintTokenRequests == [mint : {PubA}, destination : {PubA}, authority : {PubA}, amount : {1000}]

ConcurrentSignMessageRequests == [message : {MsgHi}, secret : {MismatchedSecret}]

ConcurrentVerifyMessageRequests ==
    [message : {MsgHi}, signature : {ZeroSignature}, public_key : {PubA}]

(***************************************************************************)
(* The server: MaxInFlight connections, each idle or holding one request   *)
(* that is received, then handled (the handler has returned), then sent.   *)
(* keypair and signed are what the client keeps of the responses: the last *)
(* keypair generated and the last signature made, with the secret used.    *)
(***************************************************************************)
MaxInFlight == 2

Slots == 1..MaxInFlight

IdleFrame == [pc |-> "idle"]

Init ==
    /\ router = create_router
    /\ slots = [s \in Slots |-> IdleFrame]
    /\ keypair = NoKeypair
    /\ signed = NoSigned

\* The router hands the extracted request to the route's handler.
Receive(slot, path, request) ==
    /\ slots[slot].pc = "idle"
    /\ RouteTo(path) \in handlers
    /\ slots' = [slots EXCEPT ![slot] = [pc |-> "received", path |-> path,
                                          handler |-> RouteTo(path), request |-> request]]
    /\ UNCHANGED <<router, keypair, signed>>

PostKeypair(slot) == Receive(slot, "/keypair", EMPTY)

PostTokenCreate(slot, request) == Receive(slot, "/token/create", request)

PostTokenMint(slot, request) == Receive(slot, "/token/mint", request)

PostMessageSign(slot, request) == Receive(slot, "/message/sign", request)

PostMessageVerify(slot, request) == Receive(slot, "/message/verify", request)

\* A request buffer shared by the handlers of an endpoint.
RequestOfShared(slot) ==
    IF \E other \in Slots : other < slot /\ slots[other].pc # "idle"
                                 /\ slots[other].handler = slots[slot].handler
    THEN slots[CHOOSE other \in Slots : other < slot /\ slots[other].pc # "idle"
                                 /\ slots[other].handler = slots[slot].handler].request
    ELSE slots[slot].request

\* ExtractJson(request): the handler's own request.
RequestOf(slot) == slots[slot].request

Dispatch(handler, request) ==
    CASE handler = "create_token_handler" -> create_token_handler(request)
      [] handler = "mint_token_handler" -> mint_token_handler(request)
      [] handler = "sign_message_handler" -> sign_message_handler(request)
      [] handler = "verify_message_handler" -> verify_message_handler(request)

Handled(slot, returned) ==
    slots' = [slots EXCEPT ![slot] = [pc |-> "returned", path |-> slots[slot].path,
                                      handler |-> slots[slot].handler,
                                      request |-> slots[slot].request,
                                      response |-> returned.response,
                                      calls |-> returned.calls]]

HandleKeypair(slot) ==
    /\ slots[slot].pc = "received"
    /\ slots[slot].handler = "generate_keypair_handler"
    /\ \E seed \in SeedPool : Handled(slot, generate_keypair_handler(seed))
    /\ UNCHANGED <<router, keypair, signed>>

Handle(slot) ==
    /\ slots[slot].pc = "received"
    /\ slots[slot].handler # "generate_keypair_handler"
    /\ Handled(slot, Dispatch(slots[slot].handler, RequestOf(slot)))
    /\ UNCHANGED <<router, keypair, signed>>

\* The response leaves; the client keeps a generated keypair and a signature.
Send(slot) ==
    /\ slots[slot].pc = "returned"
    /\ slots' = [slots EXCEPT ![slot] = [pc |-> "sent", path |-> slots[slot].path,
                                          handler |-> slots[slot].handler,
                                          request |-> slots[slot].request,
                                          response |-> slots[slot].response,
                                          calls |-> slots[slot].calls,
                                          wire |-> IntoResponse(slots[slot].response)]]
    /\ keypair' = IF slots[slot].handler = "generate_keypair_handler" /\ slots[slot].response.ok
                  THEN slots[slot].response.val.data ELSE keypair
    /\ signed' = IF slots[slot].handler = "sign_message_handler" /\ slots[slot].response.ok
                 THEN [secret |-> slots[slot].request.secret,
                       message |-> slots[slot].response.val.data.message,
                       signature |-> slots[slot].response.val.data.signature,
                       public_key |-> slots[slot].response.val.data.public_key]
                 ELSE signed
    /\ UNCHANGED router

Close(slot) ==
    /\ slots[slot].pc = "sent"
    /\ slots' = [slots EXCEPT ![slot] = IdleFrame]
    /\ UNCHANGED <<router, keypair, signed>>

\* One client, one request at a time, every request of the pools.
Next ==
    \/ PostKeypair(1)
    \/ \E request \in CreateTokenRequests : PostTokenCreate(1, request)
    \/ \E request \in MintTokenRequests : PostTokenMint(1, request)
    \/ \E request \in SignMessageRequests : PostMessageSign(1, request)
    \/ \E request \in VerifyMessageRequests : PostMessageVerify(1, request)
    \/ HandleKeypair(1)
    \/ Handle(1)
    \/ Send(1)
    \/ Close(1)

Spec == Init /\ [][Next]_vars

\* MaxInFlight requests in flight at once, their steps interleaved.
NextConcurrent ==
    \E slot \in Slots :
        \/ \E request \in ConcurrentCreateTokenRequests : PostTokenCreate(slot, request)
        \/ \E request \in ConcurrentMintTokenRequests : PostTokenMint(slot, request)
        \/ \E request \in ConcurrentSignMessageRequests : PostMessageSign(slot, request)
        \/ \E request \in ConcurrentVerifyMessageRequests : PostMessageVerify(slot, request)
        \/ Handle(slot)
        \/ Send(slot)
        \/ Close(slot)

SpecConcurrent == Init /\ [][NextConcurrent]_vars

(***************************************************************************)
(* What the claims speak of                                                *)
(***************************************************************************)
\* The SolanaService methods that build an instruction, sign or verify.
ServiceOperations == {"create_token_mint", "mint_token", "sign_message", "verify_message"}

\* A slot whose handler has returned.
HasReturned(slot) == slots[slot].pc \in {"returned", "sent"}

TakesBody(slot) == slots[slot].handler # "generate_keypair_handler"

\* The required string fields of a request, in the order the handler checks them.
RequiredStrings(handler, request) ==
    CASE handler = "create_token_handler" -> <<request.mint_authority, request.mint>>
      [] handler = "mint_token_handler" -> <<request.mint, request.destination, request.authority>>
      [] handler = "sign_message_handler" -> <<request.message, request.secret>>
      [] handler = "verify_message_handler" ->
             <<request.message, request.signature, request.public_key>>

\* The messages of the empty-field checks, in source order.
RequiredMessages(handler) ==
    CASE handler = "create_token_handler" -> <<"mintAuthority is required", "mint is required">>
      [] handler = "mint_token_handler" ->
             <<"mint is required", "destination is required", "authority is required">>
      [] handler = "sign_message_handler" -> <<"message is required", "secret is required">>
      [] handler = "verify_message_handler" ->
             <<"message is required", "signature is required", "public_key is required">>

ZeroAmount(handler, request) == handler = "mint_token_handler" /\ request.amount = 0

FailsValidation(handler, request) ==
    \/ \E i \in 1..Len(RequiredStrings(handler, request)) :
           RequiredStrings(handler, request)[i] = EMPTY
    \/ ZeroAmount(handler, request)

\* The key fields of a request, in the order the handler checks their format.
KeyStrings(handler, request) ==
    CASE handler = "create_token_handler" -> <<request.mint_authority, request.mint>>
      [] handler = "mint_token_handler" -> <<request.mint, request.destination, request.authority>>
      [] handler = "sign_message_handler" -> <<request.secret>>
      [] handler = "verify_message_handler" -> <<request.public_key>>

KeyMessages(handler) ==
    CASE handler = "create_token_handler" -> <<"Invalid mintAuthority: ", "Invalid mint: ">>
      [] handler = "mint_token_handler" ->
             <<"Invalid mint: ", "Invalid destination: ", "Invalid authority: ">>
      [] handler = "sign_message_handler" -> <<"Invalid secret key format">>
      [] handler = "verify_message_handler" -> <<"Invalid public_key: ">>

\* Well-formedness of a key, by the libraries' own decoders.
WellFormedKey(handler, key) ==
    IF handler = "sign_message_handler"
    THEN bs58_decode(key).ok /\ Len(bs58_decode(key).val) = KEYPAIR_LENGTH
    ELSE Pubkey_from_str(key).ok

\* The index of the first element of a sequence that satisfies a test.
FirstIndex(n, Test(_)) == CHOOSE i \in 1..n : Test(i) /\ \A j \in 1..(i - 1) : ~Test(j)

ServiceCalls(calls) == {i \in 1..Len(calls) : calls[i].op \in ServiceOperations}

\* C3: a handler given a request with an empty required string field, or
\* mint_token_handler given amount 0, returns a ValidationError and calls no
\* SolanaService method that builds an instruction, signs or verifies.
C3_EmptyFieldIsValidationError ==
    \A slot \in Slots :
        (HasReturned(slot) /\ TakesBody(slot)
            /\ FailsValidation(slots[slot].handler, slots[slot].request))
        => /\ ~slots[slot].response.ok
           /\ slots[slot].response.err.kind = "ValidationError"
           /\ ServiceCalls(slots[slot].calls) = {}

\* mint_token_handler has returned for a request whose keys are all well
\* formed and whose amount is 0.
C3_Witness ==
    \E slot \in Slots :
        /\ HasReturned(slot)
        /\ slots[slot].handler = "mint_token_handler"
        /\ slots[slot].request = [mint |-> PubA, destination |-> PubA, authority |-> PubA,
                                  amount |-> 0]
        /\ slots[slot].response.err.kind = "ValidationError"

LastCall(slot) == slots[slot].calls[Len(slots[slot].calls)]

\* C7: a successful handler outcome is an ApiResponse with success = true that
\* carries the service's data unchanged; the error envelope built by
\* ApiErrorResponse::error has success = false and the message given; no
\* outcome is both a success envelope and an error.
C7_ResponseEnvelope ==
    \A slot \in Slots :
        /\ (HasReturned(slot) /\ slots[slot].response.ok) =>
               /\ slots[slot].calls # << >>
               /\ LastCall(slot).op \in ServiceOperations \cup {"generate_keypair"}
               /\ LastCall(slot).ret.ok
               /\ DOMAIN slots[slot].response.val = {"success", "data"}
               /\ slots[slot].response.val.success = TRUE
               /\ slots[slot].response.val.data = LastCall(slot).ret.val
        /\ (HasReturned(slot) /\ ~slots[slot].response.ok) =>
               \A i \in 1..Len(slots[slot].calls) :
                   slots[slot].calls[i].op \in ServiceOperations => ~slots[slot].calls[i].ret.ok
        /\ (slots[slot].pc = "sent" /\ slots[slot].response.ok) =>
               slots[slot].wire = slots[slot].response.val
        /\ (slots[slot].pc = "sent" /\ ~slots[slot].response.ok) =>
               /\ DOMAIN slots[slot].wire = {"success", "error"}
               /\ slots[slot].wire.success = FALSE
               /\ slots[slot].wire.error =
                      <<slots[slot].response.err.kind>> \o slots[slot].response.err.msg

\* A signature has been sent in a success envelope.
C7_Witness ==
    \E slot \in Slots :
        /\ slots[slot].pc = "sent"
        /\ slots[slot].handler = "sign_message_handler"
        /\ slots[slot].wire.success = TRUE
        /\ slots[slot].wire.data.signature # EMPTY

\* C8: generate_keypair never fails: it returns Ok with a non-empty
\* public_key and a non-empty secret_key, the secret_key being the base58 of
\* the 64 bytes of the keypair, which is_valid_secret_key accepts.
C8_KeypairGeneration ==
    \A slot \in Slots :
        (HasReturned(slot) /\ slots[slot].handler = "generate_keypair_handler") =>
            /\ slots[slot].response.ok
            /\ LastCall(slot).ret.ok
            /\ LET data == slots[slot].response.val.data
                   bytes == bs58_decode(data.secret_key)
               IN /\ data.public_key # EMPTY
                  /\ data.secret_key # EMPTY
                  /\ bytes.ok
                  /\ Len(bytes.val) = 64
                  /\ bs58_encode(bytes.val) = data.secret_key
                  /\ \E seed \in SeedPool : bytes.val = Keypair_to_bytes(Keypair_new(seed))
                  /\ Pubkey_to_string(SubSeq(bytes.val, 33, 64)) = data.public_key
                  /\ is_valid_secret_key(data.secret_key)

\* generate_keypair_handler has returned a keypair whose seed is not all zero.
C8_Witness ==
    \E slot \in Slots :
        /\ HasReturned(slot)
        /\ slots[slot].handler = "generate_keypair_handler"
        /\ slots[slot].response.ok
        /\ slots[slot].response.val.data.secret_key
               = bs58_encode(Keypair_to_bytes(Keypair_new(Zeros(31) \o <<9>>)))

\* C9: a successful sign_message(m, secret) answers with message = m and
\* with the public key of the keypair the secret encodes; for a secret that
\* generate_keypair returned it is that call's public_key.
C9_SignResponseFields ==
    \A slot \in Slots :
        (HasReturned(slot) /\ slots[slot].handler = "sign_message_handler"
            /\ Len(slots[slot].calls) = 2 /\ LastCall(slot).ret.ok) =>
            LET request == slots[slot].request
                data == LastCall(slot).ret.val
            IN /\ data.message = request.message
               /\ data.public_key
                      = Pubkey_to_string(SubSeq(bs58_decode(request.secret).val, 33, 64))
               /\ (keypair # NoKeypair /\ request.secret = keypair.secret_key) =>
                      data.public_key = keypair.public_key

\* sign_message has succeeded with the secret key of a generated keypair.
C9_Witness ==
    \E slot \in Slots :
        /\ HasReturned(slot)
        /\ slots[slot].handler = "sign_message_handler"
        /\ keypair # NoKeypair
        /\ slots[slot].request.secret = keypair.secret_key
        /\ slots[slot].response.ok
        /\ slots[slot].response.val.data.public_key = keypair.public_key

\* C1: for a keypair that generate_keypair produced and every message m,
\* sign_message(m, secret_key) succeeds and verify_message(m, its signature,
\* its public_key) returns Ok with valid = true.
C1_SignVerifyRoundTrip ==
    \A slot \in Slots :
        /\ (slots[slot].pc = "returned" /\ slots[slot].handler = "generate_keypair_handler"
               /\ slots[slot].response.ok) =>
               \A m \in {EMPTY, MsgHi, MsgYo} :
                   LET s == sign_message(m, slots[slot].response.val.data.secret_key)
                   IN /\ s.ok
                      /\ verify_message(m, s.val.signature, s.val.public_key)
                             = Ok([valid |-> TRUE])
        /\ (slots[slot].pc = "returned" /\ slots[slot].handler = "verify_message_handler"
               /\ keypair # NoKeypair /\ signed.secret = keypair.secret_key
               /\ slots[slot].request = [message |-> signed.message,
                                         signature |-> signed.signature,
                                         public_key |-> signed.public_key]) =>
               /\ Len(slots[slot].calls) = 2
               /\ LastCall(slot).ret = Ok([valid |-> TRUE])

\* The client generated a keypair, had a message signed with its secret key
\* and had the signature verified: the verification has returned valid.
C1_Witness ==
    \E slot \in Slots :
        /\ slots[slot].pc = "returned"
        /\ slots[slot].handler = "verify_message_handler"
        /\ keypair # NoKeypair
        /\ keypair.secret_key # bs58_encode(Zeros(63) \o <<1>>)
        /\ signed.secret = keypair.secret_key
        /\ slots[slot].request = [message |-> signed.message, signature |-> signed.signature,
                                  public_key |-> signed.public_key]
        /\ slots[slot].response = Ok(ApiResponse_success([valid |-> TRUE]))

\* A verify_message call that reached the signature: the handler called the
\* service and the signature decoded to 64 bytes.
ReachedSignature(slot) ==
    /\ HasReturned(slot)
    /\ slots[slot].handler = "verify_message_handler"
    /\ Len(slots[slot].calls) = 2
    /\ base64_decode(slots[slot].request.signature).ok
    /\ Len(base64_decode(slots[slot].request.signature).val) = 64

\* The 64 bytes are a signature of the message under the key: the key is a
\* point and the verification equation holds.
IsSignatureUnderKey(slot) ==
    LET key == Pubkey_from_str(slots[slot].request.public_key).val
        sig == base64_decode(slots[slot].request.signature).val
    IN IsPoint(key) /\ Ed25519PublicKey_verify(key, slots[slot].request.message, sig)

\* C2 as claimed: verify_message with a valid public key and any base64
\* string of 64 bytes that is not a signature of the message under the key
\* returns Ok with valid = false.
C2_NonSignatureIsOkFalse ==
    \A slot \in Slots :
        (ReachedSignature(slot) /\ ~IsSignatureUnderKey(slot)) =>
            LastCall(slot).ret = Ok([valid |-> FALSE])

\* C2 amended: such a call returns Ok with valid = false when the key bytes
\* decompress to a point and the 64 bytes parse as an Ed25519 signature; when
\* the key is no point it returns InvalidPublicKey, and when the key is a
\* point and the bytes are no signature encoding it returns InvalidSignature.
C2_NonSignatureOutcome ==
    \A slot \in Slots :
        (ReachedSignature(slot) /\ ~IsSignatureUnderKey(slot)) =>
            LET key == Pubkey_from_str(slots[slot].request.public_key).val
                sig == base64_decode(slots[slot].request.signature).val
            IN IF ~Ed25519PublicKey_from_bytes(key).ok
               THEN LastCall(slot).ret
                        = Err("InvalidPublicKey", "Invalid public key for verification", EMPTY)
               ELSE IF ~Ed25519Signature_from_bytes(sig).ok
               THEN LastCall(slot).ret = Err("InvalidSignature", "Invalid signature format", EMPTY)
               ELSE LastCall(slot).ret = Ok([valid |-> FALSE])

\* verify_message has returned Ok with valid = false for the all-zero
\* signature under a generated key.
C2_Witness ==
    \E slot \in Slots :
        /\ ReachedSignature(slot)
        /\ ~IsSignatureUnderKey(slot)
        /\ keypair # NoKeypair
        /\ slots[slot].request.public_key = keypair.public_key
        /\ slots[slot].request.signature = ZeroSignature
        /\ LastCall(slot).ret = Ok([valid |-> FALSE])

C6_FiveRoutes ==
    /\ Len(router) = 5
    /\ {router[i].path : i \in 1..Len(router)}
           = {"/keypair", "/token/create", "/token/mint", "/message/sign", "/message/verify"}
    /\ \A i \in 1..Len(router) :
           /\ router[i].method = "POST"
           /\ router[i].handler \in handlers

====
